---- MODULE Spec2Model ----
(***************************************************************************)
(* State-machine model of the client of the Django + React JWT tutorial:   *)
(*   - authStorage / AuthProvider  (frontend/src/AuthContext.jsx, given in  *)
(*     README.md step 8),                                                   *)
(*   - AuthForm / Login / Register (frontend/src/components/                *)
(*     Authentication.jsx, given in README.md step 7),                      *)
(*   - Home / PrivateComponent / Navigation / AppContent (App.jsx),         *)
(*   - the three calls of services/api.js and the Django endpoints behind   *)
(*     them (README.md backend steps 7-9).                                  *)
(* The event loop is single threaded: every action below is one handler or *)
(* one promise continuation run to completion, followed by React's commit  *)
(* of the batched state updates (the render).                              *)
(***************************************************************************)
EXTENDS Integers, Sequences, FiniteSets, Bags, TLC

\* ------------------------------------------------------------- bounds ---
\* At most this many form submissions are in flight at once.
MaxPending == 2
\* The Identity Service issues at most this many token pairs in a run.
MaxTokens == 3

\* User names typed into the forms (the fields are `required`: never empty).
Users == {"alice", "bob"}

\* --------------------------------------------------------- JS values ---
\* A JavaScript value: a string, null or undefined.
Str(s) == [t |-> "string", v |-> s]
Null == [t |-> "null", v |-> ""]
Undefined == [t |-> "undefined", v |-> ""]
\* What a throwing JSON.parse yields instead of a value.
SyntaxError == [t |-> "SyntaxError", v |-> ""]

\* JavaScript truthiness, as used by `token && storedUsername` and `item ?`.
Truthy(x) == x.t = "string" /\ x.v # ""

\* The text held by a localStorage entry.  q = TRUE is the JSON string
\* literal "s" (s between double quotes); q = FALSE is the raw text s.
Quoted(s) == [q |-> TRUE, s |-> s]
Raw(s) == [q |-> FALSE, s |-> s]

\* JSON.stringify(value) followed by setItem's conversion of its argument
\* to a string: a string becomes its quoted literal, null the text null,
\* and undefined (stringify gives undefined) the text undefined.
JSONstringify(x) ==
  CASE x.t = "string" -> Quoted(x.v)
    [] x.t = "null" -> Raw("null")
    [] OTHER -> Raw("undefined")

\* JSON.parse(text): a quoted literal gives the string, the text null gives
\* null, any other raw text of the model is no JSON and throws.
JSONparse(item) ==
  IF item.q THEN Str(item.s)
  ELSE IF item.s = "null" THEN Null
  ELSE SyntaxError

\* ----------------------------------------------------- storage medium ---
LOCAL_STORAGE_NAMESPACE == "appAuthentication"

\* A storage key is the sequence of its dot-separated segments:
\* <<"appAuthentication", "access_token">> is appAuthentication.access_token.
NsKey(key) == <<LOCAL_STORAGE_NAMESPACE, key>>

\* Mutant: the prefix test without its dot, key.startsWith(NAMESPACE), which
\* also matches the keys of a namespace whose name merely begins the same.
StartsWithNamespace_NoDot(k) ==
  k[1] \in {LOCAL_STORAGE_NAMESPACE, LOCAL_STORAGE_NAMESPACE \o "Old"}

\* key.startsWith(`${LOCAL_STORAGE_NAMESPACE}.`): the namespace holds no dot,
\* so the prefix matches exactly when the first segment is the namespace and
\* a dot (a second segment) follows.
StartsWithNamespace(k) == Len(k) >= 2 /\ k[1] = LOCAL_STORAGE_NAMESPACE

\* Entries of other code sharing the same origin's localStorage.
Seed ==
  (<<"theme">> :> Raw("dark")) @@
  (<<"appAuthenticationOld", "access_token">> :> Quoted("legacy")) @@
  (<<"other", "username">> :> Quoted("carol"))

\* localStorage.setItem / getItem / removeItem on a storage `ls`.
SetItem(ls, k, text) == [x \in DOMAIN ls \cup {k} |-> IF x = k THEN text ELSE ls[x]]
RemoveItem(ls, k) == [x \in DOMAIN ls \ {k} |-> ls[x]]
HasItem(ls, k) == k \in DOMAIN ls

\* Mutant: set() stores the value without JSON.stringify.
authStorageSet_NoStringify(ls, key, value) == SetItem(ls, NsKey(key), Raw(value.v))

\* authStorage.set(key, value)
authStorageSet(ls, key, value) == SetItem(ls, NsKey(key), JSONstringify(value))

\* authStorage.get(key): `item ? JSON.parse(item) : null`
authStorageGet(ls, key) ==
  IF ~HasItem(ls, NsKey(key)) THEN Null
  ELSE IF ls[NsKey(key)] = Raw("") THEN Null
  ELSE JSONparse(ls[NsKey(key)])

\* authStorage.remove(key)
authStorageRemove(ls, key) == RemoveItem(ls, NsKey(key))

\* Mutant: clear() is localStorage.clear(), which empties the whole medium.
authStorageClear_Everything(ls) == [x \in {} |-> Raw("")]

\* Mutant: clear() blanks the namespace's entries instead of removing them.
authStorageClear_Blanks(ls) ==
  [x \in DOMAIN ls |-> IF StartsWithNamespace(x) THEN Raw("") ELSE ls[x]]

\* authStorage.clear(): removeItem on every key with the namespace prefix.
authStorageClear(ls) == [x \in {k \in DOMAIN ls : ~StartsWithNamespace(k)} |-> ls[x]]

\* ------------------------------------------------ Identity Service ---
\* The access and refresh token of the n-th pair the service issues
\* (RefreshToken.for_user / TokenObtainPairView: every pair is fresh).
AccessOf(n) == Str("access" \o ToString(n))
RefreshOf(n) == Str("refresh" \o ToString(n))

\* RegisterView.post: the serializer accepts the data only when the user
\* name is not taken (is_valid(raise_exception=True)), then saves the user.
RegisterAccepts(accts, u) == u \notin accts
\* TokenObtainPairView: credentials can only match an existing account.
TokenAccepts(accts, u) == u \in accts

\* --------------------------------------------------- AuthProvider ------
\* The in-memory snapshot: the two useState cells of AuthProvider.
Snapshot(li, un) == [isLoggedIn |-> li, username |-> un]

\* useState(false), useState(null)
InitialSnapshot == Snapshot(FALSE, Null)

\* Mutant: checkLoginStatus reads the identity from the wrong key.
checkLoginStatus_WrongKey(ls, cur) ==
  LET token == authStorageGet(ls, "access_token")
      storedUsername == authStorageGet(ls, "refresh_token")
  IN IF token = SyntaxError \/ storedUsername = SyntaxError THEN cur
     ELSE IF Truthy(token) /\ Truthy(storedUsername)
          THEN Snapshot(TRUE, storedUsername)
          ELSE Snapshot(FALSE, Null)

\* checkLoginStatus() on storage ls with the snapshot cur: a throwing
\* authStorage.get leaves before any setter runs.
checkLoginStatus(ls, cur) ==
  LET token == authStorageGet(ls, "access_token")
      storedUsername == authStorageGet(ls, "username")
  IN IF token = SyntaxError \/ storedUsername = SyntaxError THEN cur
     ELSE IF Truthy(token) /\ Truthy(storedUsername)
          THEN Snapshot(TRUE, storedUsername)
          ELSE Snapshot(FALSE, Null)

\* Mutant: login writes the identity under a mistyped key.
loginStore_MistypedKey(ls, accessToken, refreshToken, user) ==
  authStorageSet(
    authStorageSet(
      authStorageSet(ls, "access_token", accessToken),
      "refresh_token", refreshToken),
    "user", user)

\* Mutant: login keeps a refresh token that is already stored.
loginStore_KeepsRefresh(ls, accessToken, refreshToken, user) ==
  authStorageSet(
    authStorageSet(
      authStorageSet(ls, "access_token", accessToken),
      "refresh_token",
      IF HasItem(ls, NsKey("refresh_token"))
      THEN authStorageGet(ls, "refresh_token") ELSE refreshToken),
    "username", user)

\* Mutant: login keeps an identity that is already stored.
loginStore_KeepsIdentity(ls, accessToken, refreshToken, user) ==
  authStorageSet(
    authStorageSet(
      authStorageSet(ls, "access_token", accessToken),
      "refresh_token", refreshToken),
    "username",
    IF HasItem(ls, NsKey("username"))
    THEN authStorageGet(ls, "username") ELSE user)

\* login(accessToken, refreshToken, user): the storage after the three sets
loginStore(ls, accessToken, refreshToken, user) ==
  authStorageSet(
    authStorageSet(
      authStorageSet(ls, "access_token", accessToken),
      "refresh_token", refreshToken),
    "username", user)

\* ... and the snapshot after setIsLoggedIn(true); setUsername(user).
loginSnapshot(user) == Snapshot(TRUE, user)

\* Mutant: logout removes the access token and the identity only.
logoutStore_KeepsRefresh(ls) ==
  authStorageRemove(authStorageRemove(ls, "access_token"), "username")

\* Mutant: logout forgets setIsLoggedIn(false).
logoutSnapshot_StaysLoggedIn == Snapshot(TRUE, Null)

\* logout(): authStorage.clear(); setIsLoggedIn(false); setUsername(null).
logoutStore(ls) == authStorageClear(ls)
logoutSnapshot == Snapshot(FALSE, Null)

\* Mutant: getRefreshToken reads the access token's key.
getRefreshToken_ReadsAccess(ls) == authStorageGet(ls, "access_token")

\* getAccessToken() / getRefreshToken()
getAccessToken(ls) == authStorageGet(ls, "access_token")
getRefreshToken(ls) == authStorageGet(ls, "refresh_token")

\* The writes of login(accessToken, refreshToken, user), in program order.
loginWrites(accessToken, refreshToken, user) ==
  << <<"access_token", accessToken>>,
     <<"refresh_token", refreshToken>>,
     <<"username", user>> >>

\* The storage after the first n writes of the list ws.
RECURSIVE StoreAfterWrites(_, _, _)
StoreAfterWrites(ls, ws, n) ==
  IF n = 0 THEN ls
  ELSE authStorageSet(StoreAfterWrites(ls, ws, n - 1), ws[n][1], ws[n][2])

\* Mutant: login catches the storage failure and runs its setters anyway.
loginThrowSnapshot_Swallowed(cur, user) == Snapshot(TRUE, user)

\* The snapshot after a login whose storage write threw: the exception
\* leaves login() before setIsLoggedIn / setUsername run.
loginThrowSnapshot(cur, user) == cur

\* ------------------------------------------------------------ App ------
\* Locations: the four routes of AppContent and one address with no route.
Paths == {"/", "/register", "/login", "/private", "/nowhere"}

\* <Routes> of AppContent: the element the location matches.  The /private
\* route is part of the route list only while isLoggedIn.
RouteElement(p, li) ==
  CASE p = "/" -> "Home"
    [] p = "/register" -> "Register"
    [] p = "/login" -> "Login"
    [] p = "/private" /\ li -> "PrivateComponent"
    [] OTHER -> "NotFound"

\* What Home returns.
HomeView(li, un) ==
  IF li THEN [view |-> "welcome", user |-> un]
  ELSE [view |-> "please-log-in", user |-> Null]

\* What PrivateComponent returns: the private section or null.
PrivateComponentView(li, un) ==
  IF li THEN [view |-> "private-section", user |-> un]
  ELSE [view |-> "nothing", user |-> Null]

\* Mutant: the gated route is registered, and shows the private section,
\* whatever the isLoggedIn flag.
Render_Ungated(p, snap) ==
  CASE p = "/" -> HomeView(snap.isLoggedIn, snap.username)
    [] p = "/private" -> [view |-> "private-section", user |-> snap.username]
    [] p = "/register" -> [view |-> "register-form", user |-> Null]
    [] p = "/login" -> [view |-> "login-form", user |-> Null]
    [] OTHER -> [view |-> "404", user |-> Null]

\* The content AppContent renders below the navigation bar.
Render(p, snap) ==
  LET e == RouteElement(p, snap.isLoggedIn)
  IN CASE e = "Home" -> HomeView(snap.isLoggedIn, snap.username)
       [] e = "PrivateComponent" -> PrivateComponentView(snap.isLoggedIn, snap.username)
       [] e = "Register" -> [view |-> "register-form", user |-> Null]
       [] e = "Login" -> [view |-> "login-form", user |-> Null]
       [] OTHER -> [view |-> "404", user |-> Null]

\* The effect of PrivateComponent, run after the commit in which it is
\* mounted: navigate('/login') when not logged in.
PrivateEffect(p, snap) ==
  IF RouteElement(p, snap.isLoggedIn) = "PrivateComponent" /\ ~snap.isLoggedIn
  THEN "/login" ELSE p

\* The links Navigation shows, and whether it shows the Logout button.
NavLinks(li) == IF li THEN {"/", "/private"} ELSE {"/", "/register", "/login"}
ShowsLogout(li) == li

\* The form a location mounts (Login or Register), if any.
FormAt(p) ==
  CASE p = "/login" -> "login" [] p = "/register" -> "register" [] OTHER -> "none"

\* AuthForm's message.
ErrorMessage == "An error occurred (see details in the console). Please try again."

\* ---------------------------------------------------------- state ------
VARIABLES
  localStorage,  \* the origin's storage medium: key -> text
  isLoggedIn,    \* AuthProvider's useState(false)
  username,      \* AuthProvider's useState(null)
  path,          \* the router's current location
  phase,         \* "mounting": first render committed, AuthProvider's effect
                 \* not yet run; "ready": the effect has run
  screen,        \* what the last commit rendered below the navigation bar
  error,         \* the error state of the mounted AuthForm ("" when none)
  pending,       \* form submissions awaiting a response of the service
                 \* (a bag: equal submissions may be in flight together)
  accounts,      \* user names registered at the Identity Service
  issued,        \* number of token pairs the service has issued
  trail,         \* history: the last two controller operations
  lastLogin,     \* history: the arguments of the last login() since the
                 \* last logout(), or NoLogin
  event          \* history: the handler or continuation that ran last

vars == <<localStorage, isLoggedIn, username, path, phase, screen, error,
          pending, accounts, issued, trail, lastLogin, event>>

\* The record of the last handler: its name; whether the form that started
\* it was still mounted (for continuations of a submission); how it ended
\* ("ok", "caught": an exception reached AuthForm's catch, "rejected": the
\* returned promise rejected, "uncaught": an exception left the handler);
\* the key it was given and the value it returned or was given, if any.
EventOf(name, live, outcome, key, ret) ==
  [name |-> name, live |-> live, outcome |-> outcome, key |-> key, ret |-> ret]
Event(name) == EventOf(name, TRUE, "ok", "", Null)

NoLogin == [access |-> Null, refresh |-> Null, user |-> Null,
            via |-> "none", regOk |-> FALSE]

\* The snapshot the context currently provides.
Current == Snapshot(isLoggedIn, username)

\* History bookkeeping: controller operation `name` has just run.
Trail(name) == [prev |-> trail.last, last |-> name, pre |-> isLoggedIn]

\* The submissions in flight, and a bag with r added or removed.
Requests == BagToSet(pending)
With(pend, r) == pend (+) SetToBag({r})
Without(pend, r) == pend (-) SetToBag({r})

\* The submissions pend once the form that started them is unmounted.
Unmounted(pend) ==
  [x \in {[r EXCEPT !.live = FALSE] : r \in BagToSet(pend)} |->
     CopiesIn(x, pend) + CopiesIn([x EXCEPT !.live = TRUE], pend)]

\* React commits the batched updates of a handler: the new snapshot snap at
\* location p is rendered, then the effects of the mounted components run.
\* Leaving a location unmounts its form: its error state is gone and its
\* pending submissions are no longer backed by a mounted component.
Commit(p, snap, err, pend) ==
  LET q == PrivateEffect(p, snap)
  IN /\ isLoggedIn' = snap.isLoggedIn
     /\ username' = snap.username
     /\ path' = q
     /\ screen' = Render(q, snap)
     /\ error' = IF q = path THEN err ELSE ""
     /\ pending' = IF q = path THEN pend ELSE Unmounted(pend)

\* ----------------------------------------------------------- actions ---
\* First run: empty namespace, the app opened at any address.  The first
\* render uses the useState initial values.
Init ==
  /\ localStorage = Seed
  /\ isLoggedIn = InitialSnapshot.isLoggedIn
  /\ username = InitialSnapshot.username
  /\ path \in Paths
  /\ phase = "mounting"
  /\ screen = Render(path, InitialSnapshot)
  /\ error = ""
  /\ pending = EmptyBag
  /\ accounts = {}
  /\ issued = 0
  /\ trail = [prev |-> "none", last |-> "start", pre |-> FALSE]
  /\ lastLogin = NoLogin
  /\ event = Event("Load")

\* Mutant: the medium is emptied of the session when the page is loaded, as
\* sessionStorage is when the tab is closed.
ReloadStore_PerSession(ls) == authStorageClear(ls)

\* The storage medium after a page load: authStorage keeps its entries in
\* localStorage, which outlives the document.
ReloadStore(ls) == ls

\* The page is (re)loaded at address p: the document and every pending
\* continuation are gone, storage stays, the app renders with the useState
\* initial values.
Reload(p) ==
  /\ phase = "ready"
  /\ phase' = "mounting"
  /\ isLoggedIn' = InitialSnapshot.isLoggedIn
  /\ username' = InitialSnapshot.username
  /\ path' = p
  /\ screen' = Render(p, InitialSnapshot)
  /\ error' = ""
  /\ pending' = EmptyBag
  /\ trail' = Trail("start")
  /\ event' = Event("Load")
  /\ localStorage' = ReloadStore(localStorage)
  /\ UNCHANGED <<accounts, issued, lastLogin>>

\* Whether checkLoginStatus() throws on storage ls (JSON.parse of an entry
\* that holds no JSON).
checkLoginStatusThrows(ls) ==
  authStorageGet(ls, "access_token") = SyntaxError
    \/ authStorageGet(ls, "username") = SyntaxError

\* AuthProvider's useEffect(() => { checkLoginStatus() }, []), run once after
\* the first commit.
MountEffect ==
  /\ phase = "mounting"
  /\ phase' = "ready"
  /\ Commit(path, checkLoginStatus(localStorage, Current), error, pending)
  /\ trail' = Trail("checkStatus")
  /\ event' = EventOf("MountEffect", TRUE,
                      IF checkLoginStatusThrows(localStorage) THEN "uncaught" ELSE "ok",
                      "", Null)
  /\ UNCHANGED <<localStorage, accounts, issued, lastLogin>>

\* A consumer of the context calls checkLoginStatus().
CheckLoginStatus ==
  /\ phase = "ready"
  /\ Commit(path, checkLoginStatus(localStorage, Current), error, pending)
  /\ trail' = Trail("checkStatus")
  /\ event' = EventOf("CheckLoginStatus", TRUE,
                      IF checkLoginStatusThrows(localStorage) THEN "uncaught" ELSE "ok",
                      "", Null)
  /\ UNCHANGED <<localStorage, phase, accounts, issued, lastLogin>>

\* A click on one of the NavLinks that Navigation shows.
ClickNavLink(p) ==
  /\ phase = "ready"
  /\ p \in NavLinks(isLoggedIn)
  /\ Commit(p, Current, error, pending)
  /\ event' = Event("ClickNavLink")
  /\ UNCHANGED <<localStorage, phase, accounts, issued, trail, lastLogin>>

\* Mutant: handleLogout sends the client to the login route.
LogoutRedirect_ToLogin == "/login"

\* Where Navigation.handleLogout navigates after logout().
LogoutRedirect == "/"

\* Navigation.handleLogout: logout(); navigate('/').
HandleLogout ==
  /\ phase = "ready"
  /\ ShowsLogout(isLoggedIn)
  /\ localStorage' = logoutStore(localStorage)
  /\ Commit(LogoutRedirect, logoutSnapshot, error, pending)
  /\ trail' = Trail("logout")
  /\ lastLogin' = NoLogin
  /\ event' = Event("HandleLogout")
  /\ UNCHANGED <<phase, accounts, issued>>

\* A consumer of the context calls logout(), in whatever state.
Logout ==
  /\ phase = "ready"
  /\ localStorage' = logoutStore(localStorage)
  /\ Commit(path, logoutSnapshot, error, pending)
  /\ trail' = Trail("logout")
  /\ lastLogin' = NoLogin
  /\ event' = Event("Logout")
  /\ UNCHANGED <<phase, accounts, issued>>

\* A consumer of the context calls getAccessToken() / getRefreshToken().
GetAccessToken ==
  /\ phase = "ready"
  /\ event' = EventOf("GetAccessToken", TRUE,
                      IF getAccessToken(localStorage) = SyntaxError THEN "uncaught" ELSE "ok",
                      "access_token", getAccessToken(localStorage))
  /\ UNCHANGED <<localStorage, isLoggedIn, username, path, phase, screen, error,
                 pending, accounts, issued, trail, lastLogin>>

GetRefreshToken ==
  /\ phase = "ready"
  /\ event' = EventOf("GetRefreshToken", TRUE,
                      IF getRefreshToken(localStorage) = SyntaxError THEN "uncaught" ELSE "ok",
                      "refresh_token", getRefreshToken(localStorage))
  /\ UNCHANGED <<localStorage, isLoggedIn, username, path, phase, screen, error,
                 pending, accounts, issued, trail, lastLogin>>

\* TokenRefreshView: only a refresh token the service issued is accepted.
RefreshAccepts(tok) == Truthy(tok)

\* Mutant: the client stores the access token a refresh returns.
refreshTokenStore_Saves(ls, data) == authStorageSet(ls, "access_token", data)

\* The storage after api.refreshToken(refreshToken) has resolved with data:
\* the function returns response.data and writes nothing.
refreshTokenStore(ls, data) == ls

\* A caller runs api.refreshToken with the stored refresh token and the
\* service answers with a new access token ...
RefreshTokenOk ==
  /\ phase = "ready"
  /\ RefreshAccepts(getRefreshToken(localStorage))
  /\ localStorage' = refreshTokenStore(localStorage, Str("renewed"))
  /\ event' = EventOf("RefreshTokenOk", TRUE, "ok", "", Str("renewed"))
  /\ UNCHANGED <<isLoggedIn, username, path, phase, screen, error,
                 pending, accounts, issued, trail, lastLogin>>

\* ... or rejects it (401) or the transport fails: the promise rejects.
RefreshTokenFail ==
  /\ phase = "ready"
  /\ event' = EventOf("RefreshTokenFail", TRUE, "rejected", "", Null)
  /\ UNCHANGED <<localStorage, isLoggedIn, username, path, phase, screen, error,
                 pending, accounts, issued, trail, lastLogin>>

\* Mutant: Register.handleSubmit requests the token without registering.
FirstCall_TokenOnly(form) == "token"

\* The first call a form's handleSubmit awaits: Login.handleSubmit calls
\* apiLogin (POST /token/), Register.handleSubmit calls apiRegister
\* (POST /register/).
FirstCall(form) == IF form = "login" THEN "token" ELSE "register"

\* The call Register.handleSubmit awaits once apiRegister has resolved.
CallAfterRegister == "token"

\* AuthForm.handleSubmit up to the first await, on the form of the current
\* location: setError(''), then onSubmit(formData) with the user name typed
\* in.  regOk records whether the submission's own apiRegister has resolved.
Submit(u) ==
  /\ phase = "ready"
  /\ FormAt(path) # "none"
  /\ BagCardinality(pending) < MaxPending
  /\ LET req == [form |-> FormAt(path), user |-> u, live |-> TRUE,
                 stage |-> FirstCall(FormAt(path)), regOk |-> FALSE]
     IN Commit(path, Current, "", With(pending, req))
  /\ event' = Event("Submit")
  /\ UNCHANGED <<localStorage, phase, accounts, issued, trail, lastLogin>>

\* The name under which the failure of request r's current call is recorded.
FailName(r) == IF r.stage = "register" THEN "RegisterFail" ELSE "TokenFail"

\* Mutant: the catch only logs to the console.
Caught_LogsOnly(r) ==
  /\ Commit(path, Current, error, Without(pending, r))
  /\ event' = EventOf(FailName(r), r.live, "caught", "", Null)
  /\ UNCHANGED <<localStorage, phase, accounts, issued, trail, lastLogin>>

\* The catch of AuthForm.handleSubmit for request r: setError(message), which
\* React drops when the form is no longer mounted.
Caught(r) ==
  /\ Commit(path, Current, IF r.live THEN ErrorMessage ELSE error, Without(pending, r))
  /\ event' = EventOf(FailName(r), r.live, "caught", "", Null)
  /\ UNCHANGED <<localStorage, phase, accounts, issued, trail, lastLogin>>

\* POST /register/ answered with 201: the account exists, and
\* Register.handleSubmit goes on to call apiLogin.
RegisterOk(r) ==
  /\ r \in Requests /\ r.stage = "register"
  /\ RegisterAccepts(accounts, r.user)
  /\ accounts' = accounts \cup {r.user}
  /\ Commit(path, Current, error, With(Without(pending, r), [r EXCEPT !.stage = CallAfterRegister, !.regOk = TRUE]))
  /\ event' = EventOf("RegisterOk", r.live, "ok", "", Null)
  /\ UNCHANGED <<localStorage, phase, issued, trail, lastLogin>>

\* Mutant: Register.handleSubmit swallows the failure of apiRegister and goes
\* on to request the token.
RegisterFail_GoesOn(r) ==
  /\ r \in Requests /\ r.stage = "register"
  /\ Commit(path, Current, error, With(Without(pending, r), [r EXCEPT !.stage = CallAfterRegister]))
  /\ event' = EventOf("RegisterFail", r.live, "caught", "", Null)
  /\ UNCHANGED <<localStorage, phase, accounts, issued, trail, lastLogin>>

\* POST /register/ rejected (4xx) or the transport failed: apiRegister
\* throws into AuthForm's catch.
RegisterFail(r) ==
  /\ r \in Requests /\ r.stage = "register"
  /\ Caught(r)

\* Mutant: the forms navigate to the landing route after login().
LoginRedirect_Home == "/"

\* Where Login.handleSubmit and Register.handleSubmit navigate after login().
LoginRedirect == "/private"

\* POST /token/ answered with a fresh pair: the continuation of
\* Login.handleSubmit or Register.handleSubmit runs
\* login(data.access, data.refresh, formData.username); navigate('/private').
TokenOk(r) ==
  /\ r \in Requests /\ r.stage = "token"
  /\ TokenAccepts(accounts, r.user)
  /\ issued < MaxTokens
  /\ issued' = issued + 1
  /\ localStorage' = loginStore(localStorage, AccessOf(issued'), RefreshOf(issued'), Str(r.user))
  /\ Commit(LoginRedirect, loginSnapshot(Str(r.user)), error, Without(pending, r))
  /\ trail' = Trail("login")
  /\ lastLogin' = [access |-> AccessOf(issued'), refresh |-> RefreshOf(issued'),
                   user |-> Str(r.user), via |-> r.form, regOk |-> r.regOk]
  /\ event' = EventOf("TokenOk", r.live, "ok", "", Null)
  /\ UNCHANGED <<phase, accounts>>

\* Mutant: the form's handleSubmit swallows the failure of apiLogin and
\* navigates to the gated route.
TokenFail_Navigates(r) ==
  /\ r \in Requests /\ r.stage = "token"
  /\ Commit(LoginRedirect, Current, error, Without(pending, r))
  /\ event' = EventOf("TokenFail", r.live, "caught", "", Null)
  /\ UNCHANGED <<localStorage, phase, accounts, issued, trail, lastLogin>>

\* POST /token/ rejected (401) or the transport failed: apiLogin throws into
\* AuthForm's catch.
TokenFail(r) ==
  /\ r \in Requests /\ r.stage = "token"
  /\ Caught(r)

\* POST /token/ answered with a fresh pair, but the f-th setItem of login()
\* throws (quota exceeded, access denied): the earlier writes stay, the
\* exception leaves login() and Login/Register.handleSubmit before
\* navigate('/private') and reaches AuthForm's catch.
LoginWriteFails(r, f) ==
  /\ r \in Requests /\ r.stage = "token"
  /\ TokenAccepts(accounts, r.user)
  /\ issued < MaxTokens
  /\ issued' = issued + 1
  /\ f \in 1..Len(loginWrites(Null, Null, Null))
  /\ localStorage' = StoreAfterWrites(localStorage,
                        loginWrites(AccessOf(issued'), RefreshOf(issued'), Str(r.user)),
                        f - 1)
  /\ Commit(path, loginThrowSnapshot(Current, Str(r.user)),
            IF r.live THEN ErrorMessage ELSE error, Without(pending, r))
  /\ trail' = Trail("loginThrew")
  /\ event' = EventOf("LoginWriteFails", r.live, "caught", loginWrites(Null, Null, Null)[f][1], Null)
  /\ UNCHANGED <<phase, accounts, lastLogin>>

\* The bodies a 200 answer of POST /token/ may carry as the n-th answer: each
\* of the fields access and refresh is the issued token, an empty string, or
\* missing (data.access / data.refresh is then undefined).
ResponseBodies(n) ==
  {[access |-> a, refresh |-> rf] :
     a \in {AccessOf(n), Str(""), Undefined},
     rf \in {RefreshOf(n), Str(""), Undefined}}

\* POST /token/ answered 200 with body data: the continuation of
\* Login.handleSubmit or Register.handleSubmit runs
\* login(data.access, data.refresh, formData.username); navigate('/private')
\* on whatever the body holds.
TokenAnswer(r, data) ==
  /\ r \in Requests /\ r.stage = "token"
  /\ TokenAccepts(accounts, r.user)
  /\ issued < MaxTokens
  /\ issued' = issued + 1
  /\ data \in ResponseBodies(issued')
  /\ localStorage' = loginStore(localStorage, data.access, data.refresh, Str(r.user))
  /\ Commit(LoginRedirect, loginSnapshot(Str(r.user)), error, Without(pending, r))
  /\ trail' = Trail("login")
  /\ lastLogin' = [access |-> data.access, refresh |-> data.refresh,
                   user |-> Str(r.user), via |-> r.form, regOk |-> r.regOk]
  /\ event' = EventOf("TokenAnswer", r.live, "ok", "", Null)
  /\ UNCHANGED <<phase, accounts>>

\* ---- the Session Store on its own: authStorage called with any key ----
\* Keys and string values handed to authStorage.
StoreKeys == {"access_token", "username", "k"}
StoreValues == {"", "alice", "null", "undefined"}

StoreFrame == UNCHANGED <<isLoggedIn, username, path, phase, screen, error,
                          pending, accounts, issued, trail, lastLogin>>

\* authStorage.set(key, value)
StoreSet(key, value) ==
  /\ localStorage' = authStorageSet(localStorage, key, Str(value))
  /\ event' = EventOf("StoreSet", TRUE, "ok", key, Str(value))
  /\ StoreFrame

\* authStorage.get(key)
StoreGet(key) ==
  /\ event' = EventOf("StoreGet", TRUE,
                      IF authStorageGet(localStorage, key) = SyntaxError THEN "uncaught" ELSE "ok",
                      key, authStorageGet(localStorage, key))
  /\ UNCHANGED localStorage
  /\ StoreFrame

\* authStorage.remove(key)
StoreRemove(key) ==
  /\ localStorage' = authStorageRemove(localStorage, key)
  /\ event' = EventOf("StoreRemove", TRUE, "ok", key, Null)
  /\ StoreFrame

\* authStorage.clear()
StoreClear ==
  /\ localStorage' = authStorageClear(localStorage)
  /\ event' = EventOf("StoreClear", TRUE, "ok", "", Null)
  /\ StoreFrame

NextStore ==
  \/ \E key \in StoreKeys, value \in StoreValues : StoreSet(key, value)
  \/ \E key \in StoreKeys : StoreGet(key)
  \/ \E key \in StoreKeys : StoreRemove(key)
  \/ StoreClear

\* What the user, the page and the service's answers do.
NextApp ==
  \/ \E p \in Paths : Reload(p)
  \/ MountEffect
  \/ \E p \in Paths : ClickNavLink(p)
  \/ HandleLogout
  \/ \E u \in Users : Submit(u)
  \/ \E r \in Requests : RegisterOk(r)
  \/ \E r \in Requests : RegisterFail(r)
  \/ \E r \in Requests : TokenOk(r)
  \/ \E r \in Requests : TokenFail(r)

\* Calls of the operations the context and api.js hand to any consumer.
NextContext ==
  \/ CheckLoginStatus
  \/ Logout
  \/ GetAccessToken
  \/ GetRefreshToken
  \/ RefreshTokenOk
  \/ RefreshTokenFail

Next == NextApp \/ NextContext

Spec == Init /\ [][Next]_vars

\* The application on a storage medium whose writes may fail.
NextFault ==
  \/ NextApp
  \/ \E r \in Requests : \E f \in 1..Len(loginWrites(Null, Null, Null)) : LoginWriteFails(r, f)

SpecFault == Init /\ [][NextFault]_vars

\* The application with an Identity Service whose 200 answers may lack a
\* token or carry an empty one.
NextAnswer ==
  \/ NextApp
  \/ \E r \in Requests : \E data \in ResponseBodies(issued + 1) : TokenAnswer(r, data)

SpecAnswer == Init /\ [][NextAnswer]_vars

\* The Session Store driven directly.
SpecStore == Init /\ [][NextStore]_vars

\* ---------------------------------------------------- observations -----
\* The keys of the storage medium under the namespace prefix, and the rest.
NamespaceKeys(ls) == {k \in DOMAIN ls : StartsWithNamespace(k)}
OutsideKeys(ls) == DOMAIN ls \ NamespaceKeys(ls)

\* The three keys login() writes.
SessionKeys == {NsKey("access_token"), NsKey("refresh_token"), NsKey("username")}

\* The storage holds an access token and an identity.
HoldsSession(ls) ==
  Truthy(authStorageGet(ls, "access_token")) /\ Truthy(authStorageGet(ls, "username"))

\* ------------------------------------------------------------ claims ---

\* C1: when checkStatus runs and a login(accessToken, refreshToken, identity)
\* has run with no logout since, checkStatus leaves the controller
\* Authenticated with the identity passed to that login.
C1_LoginThenCheckStatus ==
  (trail.last = "checkStatus" /\ lastLogin # NoLogin)
    => (isLoggedIn /\ username = lastLogin.user)

\* C1 witness: a checkStatus has run directly after a login.
C1_Witness ==
  /\ trail.prev = "login" /\ trail.last = "checkStatus"
  /\ isLoggedIn /\ username = Str("alice")

\* C2: when checkStatus runs and no login has run since the last logout,
\* the controller is Anonymous with no identity, and getAccessToken and
\* getRefreshToken both return null.
C2_LogoutThenCheckStatus ==
  (trail.last = "checkStatus" /\ lastLogin = NoLogin)
    => /\ ~isLoggedIn
       /\ username = Null
       /\ getAccessToken(localStorage) = Null
       /\ getRefreshToken(localStorage) = Null

\* C2 witness: a checkStatus has run directly after a logout that ended a
\* session.
C2_Witness ==
  /\ trail.prev = "logout" /\ trail.last = "checkStatus"
  /\ issued > 0 /\ ~isLoggedIn

\* C3: in every reachable state, if the access_token key is present then the
\* username key is present.
C3_TokenImpliesIdentity ==
  HasItem(localStorage, NsKey("access_token")) => HasItem(localStorage, NsKey("username"))

\* C3 witness: a session stored by a registration followed by the login for
\* the new user.
C3_Witness ==
  /\ HasItem(localStorage, NsKey("access_token"))
  /\ lastLogin.via = "register"

\* C4: a settled client that is Anonymous is never at /private: navigation
\* to the gated route while Anonymous ends at /login.
C4_AnonymousRedirected ==
  (phase = "ready" /\ ~isLoggedIn) => path # "/private"

\* C5: the private section is rendered only while isLoggedIn is true.
C5_PrivateOnlyWhenLoggedIn ==
  screen.view = "private-section" => isLoggedIn

\* C5 witness: the private section is on screen.
C5_Witness ==
  screen.view = "private-section" /\ path = "/private" /\ screen.user = Str("bob")

\* C6: on process start with a stored session, the render that precedes
\* AuthProvider's effect already shows the controller Authenticated with the
\* stored identity.
C6_FirstRenderRehydrated ==
  (phase = "mounting" /\ HoldsSession(localStorage))
    => (isLoggedIn /\ username = authStorageGet(localStorage, "username"))

\* C7: while a login is the last change of the session, the namespace holds
\* exactly the access token, refresh token and identity of that login, also
\* when the login overwrote an earlier session.
C7_LoginOverwritesWholesale ==
  lastLogin # NoLogin =>
    /\ NamespaceKeys(localStorage) = SessionKeys
    /\ localStorage[NsKey("access_token")] = JSONstringify(lastLogin.access)
    /\ localStorage[NsKey("refresh_token")] = JSONstringify(lastLogin.refresh)
    /\ localStorage[NsKey("username")] = JSONstringify(lastLogin.user)
    /\ authStorageGet(localStorage, "access_token") = lastLogin.access
    /\ authStorageGet(localStorage, "refresh_token") = lastLogin.refresh
    /\ authStorageGet(localStorage, "username") = lastLogin.user

\* C7 witness: a login has run while the controller was Authenticated.
C7_Witness ==
  trail.last = "login" /\ trail.pre /\ issued >= 2

\* C8: every reachable state holds all three session keys or no key of the
\* namespace, and after logout the namespace holds no key.
C8_ClearAllOrNothing ==
  /\ NamespaceKeys(localStorage) \in {{}, SessionKeys}
  /\ trail.last = "logout" => NamespaceKeys(localStorage) = {}

\* C8 witness: a logout has run on a stored session.
C8_Witness ==
  trail.last = "logout" /\ trail.pre /\ NamespaceKeys(localStorage) = {}

\* C9: the keys outside the namespace prefix, and their values, are those
\* the storage held before the first operation.
C9_OutsideUntouched ==
  /\ OutsideKeys(localStorage) = DOMAIN Seed
  /\ \A k \in DOMAIN Seed : localStorage[k] = Seed[k]

\* C9 witness: a login, then a logout (the clear), have run.
C9_Witness ==
  trail.prev = "login" /\ trail.last = "logout" /\ DOMAIN localStorage = DOMAIN Seed

\* C10: a login applied by the Register form comes after that submission's
\* own register call has succeeded, leaves the controller Authenticated with
\* the registered user name, and a Register submission awaits the token
\* request exactly when its register call has succeeded.
C10_RegisterThenLogin ==
  /\ (trail.last = "login" /\ lastLogin.via = "register")
       => /\ lastLogin.regOk
          /\ isLoggedIn
          /\ username = lastLogin.user
          /\ lastLogin.user.v \in accounts
  /\ \A r \in Requests :
       r.form = "register" => ((r.stage = "token") <=> r.regOk)

\* C10 witness: a registration and its token request have both succeeded.
C10_Witness ==
  /\ trail.last = "login" /\ lastLogin.via = "register"
  /\ isLoggedIn /\ username = Str("bob")

\* C11: when the registration call fails, the Session Store, the isLoggedIn
\* flag and the in-memory identity are the same as before, whether the client
\* was Anonymous or Authenticated, and no token request is issued: the
\* submission is over, no token pair is issued and no account is created.
C11_RegisterFailKeepsState ==
  [][event'.name = "RegisterFail" =>
       /\ UNCHANGED <<localStorage, isLoggedIn, username, issued, accounts, lastLogin>>
       /\ \E r \in Requests :
            /\ r.stage = "register"
            /\ pending' = Without(pending, r)]_vars

\* C11 witness: a registration has failed for a user name that is taken,
\* while the client was Authenticated.
C11_Witness ==
  /\ event.name = "RegisterFail"
  /\ isLoggedIn /\ "alice" \in accounts
  /\ lastLogin.user = Str("alice")

\* C12 as stated: every failed login or registration request is caught and
\* shown as AuthForm's message, with the store, the snapshot and the location
\* unchanged.
C12_FailureAlwaysShown ==
  [][event'.name \in {"RegisterFail", "TokenFail"} =>
       /\ event'.outcome = "caught"
       /\ error' = ErrorMessage
       /\ UNCHANGED <<localStorage, isLoggedIn, username, path>>]_vars

\* C12 amended: every failed login or registration request is caught, never
\* uncaught, with the store, the snapshot and the location unchanged; AuthForm's
\* message is shown when the form that submitted the request is still
\* mounted, and otherwise what is shown stays as it was.
C12_FailureCaughtAtForm ==
  [][event'.name \in {"RegisterFail", "TokenFail"} =>
       /\ event'.outcome = "caught"
       /\ event'.live => error' = ErrorMessage
       /\ ~event'.live => error' = error
       /\ UNCHANGED <<localStorage, isLoggedIn, username, path, screen>>]_vars

\* C12 witness: a token request of a mounted form has been rejected and the
\* message is on screen, away from the gated route.
C12_Witness ==
  /\ event.name = "TokenFail" /\ event.live
  /\ error = ErrorMessage /\ path = "/login" /\ ~isLoggedIn

\* C13: when one of the three storage writes of login() fails, the failure
\* leaves login() and is caught by the form, the isLoggedIn flag and the
\* in-memory identity keep their values, the location is unchanged, and a
\* mounted form shows its message.
C13_WriteFailureNotSuccess ==
  [][event'.name = "LoginWriteFails" =>
       /\ event'.outcome = "caught"
       /\ UNCHANGED <<isLoggedIn, username, path, screen, lastLogin>>
       /\ event'.live => error' = ErrorMessage]_vars

\* C13 witness: the write of the refresh token has failed after the access
\* token was stored, on an Anonymous client.
C13_Witness ==
  /\ event.name = "LoginWriteFails" /\ event.key = "refresh_token"
  /\ ~isLoggedIn /\ username = Null
  /\ HasItem(localStorage, NsKey("access_token"))
  /\ path = "/login"

\* C14: a token response is applied (store write, snapshot update,
\* navigation to /private) only while the form that submitted the request is
\* still mounted.
C14_TornDownNeverApplied ==
  event.name = "TokenOk" => event.live

\* C15: in every state a render or a read observes once AuthProvider's
\* effect has run, and so after every login or logout call, isLoggedIn is
\* true exactly when the store holds both an access token and an identity,
\* and the in-memory identity is the stored identity: no state shows the
\* store of one session with the snapshot of another.
C15_StoreAndSnapshotAgree ==
  phase = "ready" =>
    /\ isLoggedIn = HoldsSession(localStorage)
    /\ username = authStorageGet(localStorage, "username")
    /\ screen = Render(path, Current)

\* C15 witness: a login has replaced the session of another user and the
\* private section shows the new identity.
C15_Witness ==
  /\ trail.last = "login" /\ trail.pre /\ trail.prev = "login"
  /\ username = Str("bob") /\ screen.user = Str("bob")
  /\ authStorageGet(localStorage, "username") = Str("bob")

\* C16: a logout() called while the controller is Anonymous and the namespace
\* is empty raises no error and changes nothing: the storage is the same, the
\* namespace stays empty, isLoggedIn stays false and the identity stays null.
C16_LogoutWhenAnonymous ==
  [][(event'.name \in {"Logout", "HandleLogout"}
        /\ ~isLoggedIn /\ NamespaceKeys(localStorage) = {}) =>
       /\ event'.outcome = "ok"
       /\ localStorage' = localStorage
       /\ NamespaceKeys(localStorage') = {}
       /\ ~isLoggedIn' /\ username' = Null
       /\ path' = path]_vars

\* C16 witness: logout() has run on a client that was Anonymous, with the
\* keys of other applications in the storage.
C16_Witness ==
  /\ event.name = "Logout" /\ ~trail.pre /\ trail.last = "logout"
  /\ trail.prev \in {"checkStatus", "logout"}
  /\ localStorage = Seed /\ ~isLoggedIn /\ username = Null

\* C17: getAccessToken and getRefreshToken leave the storage and the snapshot
\* as they are and do not fail; they return the tokens of the most recent
\* login while its session is stored, and null when the key is not set.
C17_TokenGettersPure ==
  [][event'.name \in {"GetAccessToken", "GetRefreshToken"} =>
       /\ UNCHANGED <<localStorage, isLoggedIn, username, path, screen>>
       /\ event'.outcome = "ok"
       /\ lastLogin # NoLogin =>
            event'.ret = IF event'.name = "GetAccessToken"
                         THEN lastLogin.access ELSE lastLogin.refresh
       /\ ~HasItem(localStorage, NsKey(event'.key)) => event'.ret = Null]_vars

\* C17 witness: getRefreshToken has returned the refresh token of the second
\* login.
C17_Witness ==
  /\ event.name = "GetRefreshToken" /\ event.ret = RefreshOf(2)
  /\ lastLogin.refresh = RefreshOf(2)

\* C18: for every key and string value, get(key) directly after
\* set(key, value) returns that value and the other keys read as before;
\* get(key) never throws, changes nothing, and returns null when the key was
\* never set; get(key) after remove(key) or clear() returns null.
C18_StoreRoundTrip ==
  [][/\ event'.name = "StoreSet" =>
          /\ authStorageGet(localStorage', event'.key) = event'.ret
          /\ \A k \in StoreKeys \ {event'.key} :
               authStorageGet(localStorage', k) = authStorageGet(localStorage, k)
     /\ event'.name = "StoreGet" =>
          /\ event'.outcome = "ok"
          /\ localStorage' = localStorage
          /\ event'.ret = authStorageGet(localStorage, event'.key)
          /\ ~HasItem(localStorage, NsKey(event'.key)) => event'.ret = Null
     /\ event'.name = "StoreRemove" =>
          authStorageGet(localStorage', event'.key) = Null
     /\ event'.name = "StoreClear" =>
          \A k \in StoreKeys : authStorageGet(localStorage', k) = Null]_vars

\* C18 witness: get has returned the empty string that set stored, and the
\* texts "null" and "undefined" are stored under other keys.
C18_Witness ==
  /\ event.name = "StoreGet" /\ event.key = "k" /\ event.ret = Str("")
  /\ authStorageGet(localStorage, "username") = Str("null")
  /\ authStorageGet(localStorage, "access_token") = Str("undefined")

\* C19: the stored access token and refresh token change only in a login or
\* a logout step, and a call of the refresh-token endpoint, answered or
\* rejected, leaves the storage and the snapshot unchanged.
C19_NoAutomaticRefresh ==
  [][/\ (getAccessToken(localStorage') # getAccessToken(localStorage)
           \/ getRefreshToken(localStorage') # getRefreshToken(localStorage)
           \/ localStorage' # localStorage)
          => /\ event'.name \in {"TokenOk", "HandleLogout", "Logout"}
             /\ trail'.last \in {"login", "logout"}
     /\ event'.name \in {"RefreshTokenOk", "RefreshTokenFail"}
          => UNCHANGED <<localStorage, isLoggedIn, username, path, screen>>]_vars

\* C19 witness: the refresh-token endpoint has answered with a new access
\* token and the stored access token is still the one of the login.
C19_Witness ==
  /\ event.name = "RefreshTokenOk" /\ event.ret = Str("renewed")
  /\ isLoggedIn /\ getAccessToken(localStorage) = AccessOf(1)

\* C20: when Navigation.handleLogout has run, the namespace is empty, the
\* controller is Anonymous with no identity, and the location is the landing
\* route "/", showing Home for an Anonymous visitor.
C20_LogoutThenHome ==
  event.name = "HandleLogout" =>
    /\ NamespaceKeys(localStorage) = {}
    /\ ~isLoggedIn /\ username = Null
    /\ path = "/"
    /\ screen = HomeView(FALSE, Null)

\* C20 witness: the Logout button has been used on the private section's
\* session.
C20_Witness ==
  /\ event.name = "HandleLogout" /\ trail.pre /\ trail.last = "logout"
  /\ path = "/" /\ screen.view = "please-log-in"

\* C21: when one write of a login fails on a storage whose namespace was
\* empty, the storage it leaves holds no access token without an identity
\* (login writes the identity before the tokens).
C21_IdentityBeforeTokens ==
  [][(event'.name = "LoginWriteFails" /\ NamespaceKeys(localStorage) = {}) =>
       (HasItem(localStorage', NsKey("access_token"))
          => HasItem(localStorage', NsKey("username")))]_vars

\* C22: a login() that was handed an empty or missing access token, refresh
\* token or identity does not leave the controller Authenticated.
C22_LoginNeedsAllThree ==
  (trail.last = "login"
     /\ ~(Truthy(lastLogin.access) /\ Truthy(lastLogin.refresh) /\ Truthy(lastLogin.user)))
    => ~isLoggedIn

\* C23: a page load leaves the storage as it was, and the start-up
\* checkLoginStatus that follows it yields, after a login, the controller
\* Authenticated with that login's identity and that login's tokens still
\* stored, and after a logout (or with no login ever) the controller
\* Anonymous with no identity and an empty namespace.
C23_SessionSurvivesRestart ==
  /\ event.name = "Load" =>
       localStorage = IF lastLogin = NoLogin THEN Seed
                      ELSE loginStore(Seed, lastLogin.access, lastLogin.refresh, lastLogin.user)
  /\ (event.name = "MountEffect" /\ lastLogin # NoLogin) =>
       /\ isLoggedIn /\ username = lastLogin.user
       /\ getAccessToken(localStorage) = lastLogin.access
       /\ getRefreshToken(localStorage) = lastLogin.refresh
       /\ screen = Render(path, Snapshot(TRUE, lastLogin.user))
  /\ (event.name = "MountEffect" /\ lastLogin = NoLogin) =>
       /\ ~isLoggedIn /\ username = Null
       /\ NamespaceKeys(localStorage) = {}

\* C23 witness: the page was loaded after a login and the start-up check has
\* restored the session.
C23_Witness ==
  /\ event.name = "MountEffect" /\ trail.prev = "start"
  /\ isLoggedIn /\ username = Str("alice")
  /\ getRefreshToken(localStorage) = RefreshOf(1)

\* C24: when the token request of a mounted Login form has succeeded, the
\* continuation leaves the client at /private with the controller
\* Authenticated under the submitted user name and the private section shown
\* for that name; the location is rendered with the snapshot of the login,
\* never with the one before it.
C24_LoginReachesPrivate ==
  (event.name = "TokenOk" /\ event.live /\ lastLogin.via = "login") =>
    /\ path = "/private"
    /\ isLoggedIn /\ username = lastLogin.user
    /\ screen = PrivateComponentView(TRUE, lastLogin.user)
    /\ HoldsSession(localStorage)

\* C24 witness: bob's login from the mounted Login form has been answered and
\* his private section is on screen.
C24_Witness ==
  /\ event.name = "TokenOk" /\ event.live /\ lastLogin.via = "login"
  /\ path = "/private" /\ screen = [view |-> "private-section", user |-> Str("bob")]
  /\ ~trail.pre

\* C25: whatever the order in which overlapping submissions are answered,
\* a storage that holds any session key holds the n-th access token with the
\* n-th refresh token and the identity of the login() call that was handed
\* that pair, for one n.
C25_FieldsFromOneLogin ==
  (SessionKeys \cap DOMAIN localStorage # {}) =>
    \E n \in 1..issued :
      /\ lastLogin.access = AccessOf(n) /\ lastLogin.refresh = RefreshOf(n)
      /\ authStorageGet(localStorage, "access_token") = AccessOf(n)
      /\ authStorageGet(localStorage, "refresh_token") = RefreshOf(n)
      /\ authStorageGet(localStorage, "username") = lastLogin.user

\* C25 witness: two submissions for different users were in flight together;
\* bob's was answered first, then alice's, whose form is gone.
C25_Witness ==
  /\ event.name = "TokenOk" /\ ~event.live
  /\ trail.prev = "login" /\ trail.last = "login" /\ trail.pre
  /\ lastLogin.user = Str("alice") /\ lastLogin.access = AccessOf(2)
  /\ authStorageGet(localStorage, "username") = Str("alice")

\* C26: the step that directly follows a logout through the navigation bar,
\* when nothing has been submitted since, never authenticates the client:
\* the answer to a submission made before the logout is not applied.
C26_LogoutStaysAnonymous ==
  [][event.name = "HandleLogout" =>
       /\ ~isLoggedIn'
       /\ NamespaceKeys(localStorage') = {}]_vars

\* C27 as stated: when the token request that follows a successful
\* registration fails, the store, the snapshot and the location are
\* unchanged and AuthForm's message is shown.
C27_TokenFailAfterRegisterShown ==
  [][(event'.name = "TokenFail"
        /\ \E r \in Requests : r.regOk /\ pending' = Without(pending, r)) =>
       /\ UNCHANGED <<localStorage, isLoggedIn, username, path, lastLogin>>
       /\ error' = ErrorMessage]_vars

\* C27 amended: when the token request that follows a successful
\* registration fails, no login is applied: the store, the snapshot, the
\* location and the screen are unchanged and the account stays registered;
\* AuthForm's message is shown when the Register form that submitted is still
\* mounted, and otherwise what is shown stays as it was.
C27_TokenFailAfterRegister ==
  [][(event'.name = "TokenFail"
        /\ \E r \in Requests : r.regOk /\ pending' = Without(pending, r)) =>
       /\ UNCHANGED <<localStorage, isLoggedIn, username, path, screen, lastLogin, accounts>>
       /\ event'.outcome = "caught"
       /\ event'.live => (error' = ErrorMessage /\ path' = "/register")
       /\ ~event'.live => error' = error]_vars

\* C27 witness: the Register form is mounted and shows the message after its
\* registration succeeded and its token request failed; bob has an account
\* and no session.
C27_Witness ==
  /\ event.name = "TokenFail" /\ event.live
  /\ path = "/register" /\ error = ErrorMessage
  /\ "bob" \in accounts /\ ~isLoggedIn /\ NamespaceKeys(localStorage) = {}

====
